---------------------------- MODULE Spec2Model ----------------------------
(***************************************************************************)
(* A model of the ireina price bot's two cores:                            *)
(*   - the ticker data sources (src/datasources/*.rs): a vendor query      *)
(*     behind a tokio Mutex that guards a 5 s cache, and the Aggregator    *)
(*     that joins its members and takes medians;                           *)
(*   - the Coinbase catalog monitor (src/coinbase_monitor.rs): a poll      *)
(*     loop that keeps 24 h of catalog snapshots behind one Mutex.         *)
(* Each part has its own specification (end of the module); the parts a   *)
(* specification does not exercise stay in their initial state.            *)
(*                                                                         *)
(* Conventions.  Option<T> is a sequence of length 0 (None) or 1 (Some).   *)
(* A Decimal d is the integer d * DecScale, so that the mean of two        *)
(* parsed prices, and the mean of two such means, is exact.  Instant is    *)
(* a monotonic clock in seconds; SystemTime is a wall clock in hours.      *)
(***************************************************************************)
EXTENDS Integers, Sequences, FiniteSets, TLC

VARIABLES
    \* ---- one leaf data source and its callers (SpecDS) ----
    kind,            \* which vendor struct the instance is
    clock,           \* Instant::now(), seconds
    last_check_res,  \* Mutex<Option<(Instant, TickerData)>>: the guarded value
    mutex,           \* the tokio Mutex: FIFO of tasks, head holds the lock
    pc,              \* per caller: position in get_ticker_data
    ret,             \* per caller: Option<TickerData> returned by its last call
    call,            \* per caller: bookkeeping of its last call (see NoCall)
    turn,            \* number of lock acquisitions so far
    calls,           \* number of get_ticker_data calls so far
    starts,          \* when the last two upstream requests were sent
    okDone,          \* Option: which acquisition's upstream request succeeded last, and when
    lastFailed       \* whether the call that returned last returned a failure

VARIABLES
    \* ---- one call of an Aggregator whose members are leaf sources that hold
    \*      no entry and that no other task calls (SpecAgg) ----
    nmembers,        \* self.sources.len()
    apc,             \* position of the call: "idle", "joining", "done"
    slots,           \* join_all's output under construction: Option<TickerData> per member
    produced,        \* per member: Option of what its get_ticker_data returned to this call
    outOfOrder,      \* whether a member completed before one declared earlier
    aret             \* Option<TickerData> the Aggregator returned

VARIABLES
    \* ---- median as a function (SpecMedian) ----
    mdata,           \* the decimals handed to median, in the order supplied
    mpc,             \* "input", "done"
    mres             \* Option<Decimal> returned

VARIABLES
    \* ---- the catalog monitor's poll loop (SpecMon) ----
    wall,            \* SystemTime::now(), hours
    data,            \* Mutex<Vec<(SystemTime, BTreeMap<String, Product>)>>: the guarded value
    dataMutex,       \* the tokio Mutex around data: FIFO of tasks, head holds the lock
    loop,            \* position of monitor(): "top", "fetching", "locking", "sleeping"
    now,             \* the loop's `now`
    products,        \* the loop's parsed `products`
    polls,           \* number of iterations started so far
    dropped,         \* number of entries the last update left out
    answer,          \* Option: what the listing endpoint answered in this iteration
    locked,          \* the tasks that hold a guard of the Mutex around data
    naps             \* number of sleeps that ended since the last iteration started

VARIABLES
    \* ---- a task that queries the monitor (SpecQuery) ----
    qpc,             \* position of the task: "idle", "lock", "held", "done"
    qop,             \* the method it called: "query" or "query_cmp"
    qarg,            \* query's ticker
    qret             \* what the call returned: Option<Product> or Option<String>

VARIABLES
    \* ---- one fetch of a Yahoo source that holds no entry (SpecYahoo) ----
    yresp,           \* what the history request answers
    ypc,             \* "input", "done"
    yret             \* the TickerData get_ticker_data returned

VARIABLES
    \* ---- an Aggregator whose first member is an Aggregator (SpecNested) ----
    inner            \* Option: what the inner Aggregator's members returned to it

VARIABLES
    \* ---- tasks that call one Aggregator over leaf sources (SpecShared) ----
    entries,         \* per source: its last_check_res
    locks,           \* per source: its tokio Mutex, FIFO of tasks, head holds the lock once granted
    fpc,             \* per task and source: position of the member future in get_ticker_data
    fret,            \* per task and source: Option<TickerData> the member future returned
    tpc,             \* per task: position in the Aggregator's get_ticker_data
    tret             \* per task: Option<TickerData> the Aggregator returned

dsVars == <<kind, clock, last_check_res, mutex, pc, ret, call, turn, calls,
            starts, okDone, lastFailed>>
aggVars == <<nmembers, apc, slots, produced, outOfOrder, aret>>
medVars == <<mdata, mpc, mres>>
monVars == <<wall, data, dataMutex, loop, now, products, polls, dropped, answer, locked,
             naps, qpc, qop, qarg, qret>>

yahooVars == <<yresp, ypc, yret>>
shVars == <<entries, locks, fpc, fret, tpc, tret>>
restVars == <<yahooVars, inner, shVars>>

vars == <<dsVars, aggVars, medVars, monVars, restVars>>

\* a step of one part leaves the others alone
OnlyDS == UNCHANGED <<aggVars, medVars, monVars, restVars>>
OnlyAgg == UNCHANGED <<dsVars, medVars, monVars, restVars>>
OnlyMedian == UNCHANGED <<dsVars, aggVars, monVars, restVars>>
OnlyMon == UNCHANGED <<dsVars, aggVars, medVars, restVars>>
OnlyYahoo == UNCHANGED <<dsVars, aggVars, medVars, monVars, inner, shVars>>
OnlyShared == UNCHANGED <<dsVars, aggVars, medVars, monVars, yahooVars, inner>>

-----------------------------------------------------------------------------
(* Bounds of the model *)

NCallers == 2
MaxClock == 5
MaxCalls == 3
MaxQuotes == 2
MaxMembers == 5
MaxLen == 4
MaxPolls == 4
MaxItems == 2

(* Program constants *)

\* Duration::from_secs(5), the cache's time to live
TTL == 5
\* Duration::from_secs(3600 * 24), the history kept, in hours
Retention == 24
\* Duration::from_secs(3600), the sleep between two polls, in hours
PollInterval == 1
\* the quorum of last prices that makes up for a missing member
Quorum == 3
\* the unit of a Decimal: quarters, so that halving twice is exact
DecScale == 2 * 2

Callers == 1..NCallers

-----------------------------------------------------------------------------
(* Option, Result, TickerData *)

None == <<>>
Some(x) == <<x>>
IsSome(o) == Len(o) = 1
Unwrap(o) == o[1]

Ok(v) == [ok |-> TRUE, val |-> v]
Err(e) == [ok |-> FALSE, err |-> e]

TickerData(last, prev, insufficient, errs) ==
    [last_price |-> last, prev_price |-> prev,
     insufficient_data |-> insufficient, errors |-> errs]

-----------------------------------------------------------------------------
(* What a vendor can answer.                                               *)
(* transport: "ok", or the request failed in send()/json() ("error": the   *)
(* connection failed, "timeout": the client's timeout fired, "decode":     *)
(* the body was not JSON).                                                 *)
(* A JSON field is absent (Null), a JSON string, or a JSON number.         *)

Null == [type |-> "null"]
JStr(s) == [type |-> "string", text |-> s]
JNum(n) == [type |-> "number", num |-> n]

Prices == {1, 2}
PriceText == [p \in Prices |-> IF p = 1 THEN "1" ELSE "2"]

JsonFields ==
    {Null, JStr("abc")} \cup {JStr(PriceText[p]) : p \in Prices}
                        \cup {JNum(p) : p \in Prices}

Transports == {"ok", "error", "timeout", "decode"}

TransportFailed(t) == t # "ok"

\* e.to_string() of the reqwest / yahoo error
TransportMessage(t) ==
    CASE t = "error" -> "error sending request"
      [] t = "timeout" -> "operation timed out"
      [] t = "decode" -> "error decoding response body"

\* response[<error key>], response[<last>], response[<open or close>]
JsonResponses ==
    [transport : {"ok"}, err : {Null, JStr("E")}, last : JsonFields, prev : JsonFields]
    \cup [transport : Transports \ {"ok"}, err : {Null}, last : {Null}, prev : {Null}]

\* f64 values of a Yahoo quote: not representable as Decimal, zero, or a price
NaN == 0 - 1
Floats == {NaN, 0} \cup Prices
Quotes == [close : {NaN} \cup Prices, adjclose : Floats]

RECURSIVE SeqsUpTo(_, _)
SeqsUpTo(S, n) ==
    IF n = 0 THEN {<<>>}
    ELSE LET shorter == SeqsUpTo(S, n - 1)
         IN shorter \cup {Append(s, x) : s \in {t \in shorter : Len(t) = n - 1}, x \in S}

\* quotes in the order the provider lists them: oldest first
YahooResponses ==
    [transport : {"ok"}, quotes : SeqsUpTo(Quotes, MaxQuotes)]
    \cup [transport : Transports \ {"ok"}, quotes : {<<>>}]

Kinds == {"binance", "coinbase", "kraken", "goldprice", "yfinance"}

Responses(k) == IF k = "yfinance" THEN YahooResponses ELSE JsonResponses

\* The answers used where several tasks share one source: a refused connection, and one
\* well-formed answer per price (what differs between two successful samples).
PlainResponses(k) ==
    IF k = "yfinance"
    THEN {[transport |-> "error", quotes |-> <<>>]}
         \cup {[transport |-> "ok", quotes |-> <<[close |-> p, adjclose |-> 0]>>] : p \in Prices}
    ELSE {[transport |-> "error", err |-> Null, last |-> Null, prev |-> Null]}
         \cup {[transport |-> "ok", err |-> Null,
                last |-> IF k = "goldprice" THEN JNum(p) ELSE JStr(PriceText[p]),
                prev |-> IF k = "goldprice" THEN JNum(1) ELSE JStr(PriceText[1])] : p \in Prices}

-----------------------------------------------------------------------------
(* Conversions *)

\* serde_json Value::as_str
as_str(v) == IF v.type = "string" THEN Some(v.text) ELSE None

\* serde_json Value::as_f64
as_f64(v) == IF v.type = "number" THEN Some(v.num) ELSE None

\* Decimal::from_str
DecimalFromStr(s) ==
    IF \E p \in Prices : PriceText[p] = s
    THEN Ok(DecScale * (CHOOSE p \in Prices : PriceText[p] = s))
    ELSE Err("Invalid decimal: unknown character")

\* Decimal::from_f64
DecimalFromF64(f) == IF f = NaN THEN None ELSE Some(DecScale * f)

Reverse(s) == [i \in 1..Len(s) |-> s[Len(s) + 1 - i]]

-----------------------------------------------------------------------------
(* run_query of each vendor: Result<..> from the vendor's answer *)

\* the `?` on send().await and json().await
Transported(resp, parsed) ==
    IF TransportFailed(resp.transport) THEN Err(TransportMessage(resp.transport))
    ELSE parsed

\* Decimal::from_str(v.as_str().ok_or(anyhow!(msg))?)?
StrDecimal(v, msg) ==
    IF IsSome(as_str(v)) THEN DecimalFromStr(Unwrap(as_str(v))) ELSE Err(msg)

\* v.as_f64().and_then(Decimal::from_f64).ok_or(anyhow!(msg))?
F64Decimal(v, msg) ==
    IF IsSome(as_f64(v)) /\ IsSome(DecimalFromF64(Unwrap(as_f64(v))))
    THEN Ok(Unwrap(DecimalFromF64(Unwrap(as_f64(v)))))
    ELSE Err(msg)

\* two fallible parses in sequence, the first error wins
Both(a, b) ==
    IF ~a.ok THEN a
    ELSE IF ~b.ok THEN b
    ELSE Ok(<<a.val, b.val>>)

BinanceRunQuery(resp) ==
    Transported(resp,
        IF resp.err # Null THEN Err("Binance: E")
        ELSE Both(StrDecimal(resp.last, "Failed to parse Binance response"),
                  StrDecimal(resp.prev, "Failed to parse Binance response")))

\* a slip: the `message` key is not looked at
CoinbaseRunQuery_IgnoresMessage(resp) ==
    Transported(resp,
        Both(StrDecimal(resp.last, "Failed to parse Coinbase response"),
             StrDecimal(resp.prev, "Failed to parse Coinbase response")))

CoinbaseRunQuery(resp) ==
    Transported(resp,
        IF resp.err # Null THEN Err("Coinbase: E")
        ELSE Both(StrDecimal(resp.last, "Failed to parse Coinbase response"),
                  StrDecimal(resp.prev, "Failed to parse Coinbase response")))

\* Kraken reads the last trade only
KrakenRunQuery(resp) ==
    Transported(resp,
        IF resp.err # Null THEN Err("Kraken: E")
        ELSE LET last == StrDecimal(resp.last, "Failed to parse Kraken response")
             IN IF last.ok THEN Ok(last.val) ELSE last)

\* Goldprice has no error key: only the two floats are read
GoldpriceRunQuery(resp) ==
    Transported(resp,
        Both(F64Decimal(resp.last, "Failed to parse Goldprice response"),
             F64Decimal(resp.prev, "Failed to parse Goldprice response")))

\* a slip: the previous price is taken from the prior point's close
YahooRunQuery_PrevClose(resp) == Transported(resp,
    LET quotes == Reverse(resp.quotes)
        prev_price == IF Len(quotes) >= 2 THEN quotes[2].close ELSE 0
        msg == "Failed to parse yfi price into decimal"
    IN IF Len(quotes) = 0 THEN Ok(<<None, None>>)
       ELSE IF prev_price = 0 THEN IF IsSome(DecimalFromF64(quotes[1].close)) THEN Ok(<<DecimalFromF64(quotes[1].close), None>>) ELSE Err(msg)
       ELSE IF ~IsSome(DecimalFromF64(quotes[1].close)) THEN Err(msg)
       ELSE IF ~IsSome(DecimalFromF64(prev_price)) THEN Err(msg)
       ELSE Ok(<<DecimalFromF64(quotes[1].close), DecimalFromF64(prev_price)>>))

YahooRunQuery(resp) ==
    Transported(resp,
        LET quotes == Reverse(resp.quotes)
            prev_price == IF Len(quotes) >= 2 THEN quotes[2].adjclose ELSE 0
            msg == "Failed to parse yfi price into decimal"
        IN IF Len(quotes) = 0 THEN Ok(<<None, None>>)
           ELSE IF prev_price = 0
           THEN IF IsSome(DecimalFromF64(quotes[1].close))
                THEN Ok(<<DecimalFromF64(quotes[1].close), None>>)
                ELSE Err(msg)
           ELSE IF ~IsSome(DecimalFromF64(quotes[1].close)) THEN Err(msg)
           ELSE IF ~IsSome(DecimalFromF64(prev_price)) THEN Err(msg)
           ELSE Ok(<<DecimalFromF64(quotes[1].close), DecimalFromF64(prev_price)>>))

RunQuery(k, resp) ==
    CASE k = "binance" -> BinanceRunQuery(resp)
      [] k = "coinbase" -> CoinbaseRunQuery(resp)
      [] k = "kraken" -> KrakenRunQuery(resp)
      [] k = "goldprice" -> GoldpriceRunQuery(resp)
      [] k = "yfinance" -> YahooRunQuery(resp)

\* The fields of the answer a vendor's run_query reads, and its error key
HasErrorKey(k) == k \in {"binance", "coinbase", "kraken"}
Required(k, resp) ==
    CASE k = "kraken" -> {resp.last}
      [] k = "yfinance" -> {}
      [] OTHER -> {resp.last, resp.prev}

\* The kind of answer: a failed or timed-out transport, an error signalled
\* under the vendor's error key, a required field that is missing or is not
\* a number, Yahoo's empty list of points, or anything else.
Outcome(k, resp) ==
    CASE resp.transport = "timeout" -> "timeout"
      [] resp.transport \in {"error", "decode"} -> "transport"
      [] k = "yfinance" /\ resp.transport = "ok" ->
            IF Len(resp.quotes) = 0 THEN "empty"
            ELSE IF resp.quotes[Len(resp.quotes)].close = NaN THEN "non-numeric"
            ELSE "other"
      [] OTHER ->
            IF HasErrorKey(k) /\ resp.err # Null THEN "vendor error"
            ELSE IF Null \in Required(k, resp) THEN "missing"
            ELSE IF JStr("abc") \in Required(k, resp) THEN "non-numeric"
            ELSE "other"

FailureOutcomes == {"timeout", "transport", "vendor error", "missing", "non-numeric"}

-----------------------------------------------------------------------------
(* get_ticker_data: the two arms of `match self.run_query().await` *)

\* a slip: every Ok arm alike, insufficient_data: false
OkTickerData_NeverInsufficient(k, val) ==
    CASE k = "kraken" -> TickerData(Some(val), None, FALSE, <<>>)
      [] k = "yfinance" -> TickerData(val[1], val[2], FALSE, <<>>)
      [] OTHER -> TickerData(Some(val[1]), Some(val[2]), FALSE, <<>>)

\* the Ok arm: Kraken has no previous price; Yahoo passes its Options on and
\* flags a missing last price; the others wrap both decimals
OkTickerData(k, val) ==
    CASE k = "kraken" -> TickerData(Some(val), None, FALSE, <<>>)
      [] k = "yfinance" -> TickerData(val[1], val[2], ~IsSome(val[1]), <<>>)
      [] OTHER -> TickerData(Some(val[1]), Some(val[2]), FALSE, <<>>)

ErrTickerData(e) == TickerData(None, None, TRUE, <<e>>)

QueryTickerData(k, res) == IF res.ok THEN OkTickerData(k, res.val) ELSE ErrTickerData(res.err)

\* a slip: the result is stored whatever it is (negative caching)
StoreAlways(res, inst, td, old) == Some([time |-> inst, data |-> td])

\* the Ok arm stores (Instant::now(), ticker_data.clone())
StoreOnOk(res, inst, td, old) == IF res.ok THEN Some([time |-> inst, data |-> td]) ELSE old

\* a slip: the comparison the wrong way round
Fresh_Inverted(cache, inst) == IsSome(cache) /\ inst - Unwrap(cache).time >= TTL

\* a slip: the entry expires a second early
Fresh_Early(cache, inst) == IsSome(cache) /\ inst - Unwrap(cache).time < TTL - 1

\* a slip: an entry of exactly TTL seconds still counts as fresh
Fresh_Inclusive(cache, inst) == IsSome(cache) /\ inst - Unwrap(cache).time <= TTL

\* time.elapsed() < Duration::from_secs(5)
Fresh(cache, inst) == IsSome(cache) /\ inst - Unwrap(cache).time < TTL

-----------------------------------------------------------------------------
(* One data source instance, called by NCallers tasks (SpecDS).            *)
(* pc: "idle" (never called), "lock" (in self.last_check_res.lock().await),*)
(* "query" (holds the lock, in self.run_query().await), "done" (returned). *)
(* tokio's Mutex is fair: waiters get the lock in the order they asked.    *)

\* What is remembered of a caller's last call: seq, the position of its lock
\* acquisition among all acquisitions; issued, whether it sent an upstream
\* request; with, the callers whose call was in progress at some moment of
\* this call; outcome, the kind of answer its request got; and, as of its lock
\* acquisition: after, the acquisition whose request was the last to succeed
\* (0: none), and recent, whether that success was less than TTL ago.
NoCall == [seq |-> 0, issued |-> FALSE, with |-> {}, outcome |-> "none",
           after |-> 0, recent |-> FALSE]

InProgress(c) == pc[c] \in {"lock", "query"}

InitDS ==
    /\ kind \in Kinds
    /\ clock = 0
    /\ last_check_res = None
    /\ mutex = <<>>
    /\ pc = [c \in Callers |-> "idle"]
    /\ ret = [c \in Callers |-> None]
    /\ call = [c \in Callers |-> NoCall]
    /\ turn = 0
    /\ calls = 0
    /\ starts = <<>>
    /\ okDone = None
    /\ lastFailed = FALSE

\* time passes
Tick ==
    /\ clock < MaxClock
    /\ clock' = clock + 1
    /\ UNCHANGED <<kind, last_check_res, mutex, pc, ret, call, turn, calls, starts, okDone,
                   lastFailed>>
    /\ OnlyDS

\* a task enters get_ticker_data and asks for the lock
Call(c) ==
    /\ pc[c] \in {"idle", "done"}
    /\ calls < MaxCalls
    /\ calls' = calls + 1
    /\ pc' = [pc EXCEPT ![c] = "lock"]
    /\ mutex' = Append(mutex, c)
    /\ ret' = [ret EXCEPT ![c] = None]
    /\ call' = [d \in Callers |->
                  IF d = c
                  THEN [NoCall EXCEPT !.with = {e \in Callers \ {c} : InProgress(e)}]
                  ELSE IF InProgress(d) THEN [call[d] EXCEPT !.with = @ \cup {c}]
                  ELSE [call[d] EXCEPT !.with = @ \ {c}]]
    /\ UNCHANGED <<kind, clock, last_check_res, turn, starts, okDone, lastFailed>>
    /\ OnlyDS

\* the two most recent request starts
Started(log, inst) == IF Len(log) < 2 THEN Append(log, inst) ELSE <<log[2], inst>>

\* what a caller notes when it gets the lock
Noted(c) ==
    [call[c] EXCEPT !.seq = turn + 1,
                    !.after = IF IsSome(okDone) THEN Unwrap(okDone).seq ELSE 0,
                    !.recent = IsSome(okDone) /\ clock - Unwrap(okDone).time < TTL]

\* lock().await returns: the cache check, and either the early return of the
\* clone or the start of run_query
Acquire(c) ==
    /\ pc[c] = "lock"
    /\ Head(mutex) = c
    /\ turn' = turn + 1
    /\ IF Fresh(last_check_res, clock)
       THEN /\ ret' = [ret EXCEPT ![c] = Some(Unwrap(last_check_res).data)]
            /\ pc' = [pc EXCEPT ![c] = "done"]
            /\ mutex' = Tail(mutex)
            /\ call' = [call EXCEPT ![c] = Noted(c)]
            /\ lastFailed' = FALSE
            /\ UNCHANGED starts
       ELSE /\ pc' = [pc EXCEPT ![c] = "query"]
            /\ call' = [call EXCEPT ![c] = [Noted(c) EXCEPT !.issued = TRUE]]
            /\ starts' = Started(starts, clock)
            /\ UNCHANGED <<ret, mutex, lastFailed>>
    /\ UNCHANGED <<kind, clock, last_check_res, calls, okDone>>
    /\ OnlyDS

\* run_query().await returns: the match, the store on Ok, the return and the
\* drop of the guard
Respond(c, resp) ==
    /\ pc[c] = "query"
    /\ LET res == RunQuery(kind, resp)
           td == QueryTickerData(kind, res)
       IN /\ last_check_res' = StoreOnOk(res, clock, td, last_check_res)
          /\ ret' = [ret EXCEPT ![c] = Some(td)]
          /\ okDone' = IF res.ok THEN Some([seq |-> call[c].seq, time |-> clock]) ELSE okDone
          /\ lastFailed' = ~res.ok
    /\ call' = [call EXCEPT ![c].outcome = Outcome(kind, resp)]
    /\ pc' = [pc EXCEPT ![c] = "done"]
    /\ mutex' = Tail(mutex)
    /\ UNCHANGED <<kind, clock, turn, calls, starts>>
    /\ OnlyDS

-----------------------------------------------------------------------------
(* Claims about one data source *)

Returned(c) == pc[c] = "done"
Sample(c) == Unwrap(ret[c])

\* c and d called the source concurrently and both have returned
Concurrent(c, d) == c # d /\ Returned(c) /\ Returned(d) /\ c \in call[d].with

\* C1 as stated: of two callers that call the source concurrently within one
\* TTL window (here: the first TTL seconds of the run), at most one sends an
\* upstream request and both return the same TickerData.
C1_CoalescingAlways ==
    \A c, d \in Callers :
        Concurrent(c, d) /\ clock < TTL
        => ~(call[c].issued /\ call[d].issued) /\ Sample(c) = Sample(d)

\* d got the lock after c's upstream request had succeeded, with no other
\* success in between and less than TTL after it
SharesSuccessOf(d, c) ==
    /\ Concurrent(c, d)
    /\ call[c].issued
    /\ call[d].after = call[c].seq
    /\ call[d].recent

\* C1, amended: when the upstream request of one of two concurrent callers
\* succeeds, the other, getting the lock less than TTL after that success,
\* sends no upstream request and returns the identical TickerData.
C1_CoalescingOnSuccess ==
    \A c, d \in Callers :
        SharesSuccessOf(d, c) => ~call[d].issued /\ Sample(d) = Sample(c)

C1_Witness == \E c, d \in Callers : SharesSuccessOf(d, c) /\ ~call[d].issued

\* C2 as stated: two upstream requests of one source never start less than
\* TTL apart.
C2_RateBoundAlways == Len(starts) = 2 => starts[2] - starts[1] >= TTL

RequestInFlight == \E c \in Callers : pc[c] = "query"

\* C2, amended: no upstream request of a source starts less than TTL after a
\* successful upstream request of that source ended (a failed one delays
\* nothing).
C2_RateBoundAfterSuccess ==
    RequestInFlight /\ IsSome(okDone)
    => starts[Len(starts)] - Unwrap(okDone).time >= TTL

C2_Witness == RequestInFlight /\ IsSome(okDone)

\* C3: a failed upstream request leaves last_check_res exactly as it was, and
\* the call that gets the lock next after a failed call sends an upstream
\* request.
C3_NoNegativeCaching ==
    [][\A c \in Callers :
         /\ (pc[c] = "query" /\ pc'[c] = "done" /\ Unwrap(ret'[c]).errors # <<>>)
            => last_check_res' = last_check_res
         /\ (lastFailed /\ pc[c] = "lock" /\ pc'[c] # "lock")
            => pc'[c] = "query"]_vars

\* after a failure that found an expired entry, the next call is querying
C3_Witness == lastFailed /\ RequestInFlight /\ IsSome(last_check_res)

\* C4: every call returns a TickerData, and when the vendor's answer was a
\* failure (transport, timeout, vendor error, missing or non-numeric field)
\* it has no prices, insufficient_data set and exactly one error message.
C4_Total ==
    \A c \in Callers :
        Returned(c) =>
            /\ IsSome(ret[c])
            /\ DOMAIN Sample(c) = {"last_price", "prev_price", "insufficient_data", "errors"}
            /\ call[c].outcome \in FailureOutcomes =>
                 /\ Sample(c).last_price = None
                 /\ Sample(c).prev_price = None
                 /\ Sample(c).insufficient_data = TRUE
                 /\ Len(Sample(c).errors) = 1

C4_Witness ==
    \E c \in Callers :
        Returned(c) /\ kind = "coinbase" /\ call[c].outcome = "vendor error"

\* c's upstream request succeeded and no later one has
Succeeded(c) ==
    Returned(c) /\ call[c].issued /\ IsSome(okDone) /\ Unwrap(okDone).seq = call[c].seq

\* C5 as stated: after a successful upstream request the returned TickerData
\* has insufficient_data = false and no errors, and it is the cached value,
\* stamped with the time the request ended.
C5_SuccessSampleAlways ==
    \A c \in Callers :
        Succeeded(c) =>
            /\ Sample(c).insufficient_data = FALSE
            /\ Sample(c).errors = <<>>
            /\ last_check_res = Some([time |-> Unwrap(okDone).time, data |-> Sample(c)])

\* C5, amended: as stated, except that insufficient_data is true when Yahoo
\* answered with no data point (and only then).
C5_SuccessSample ==
    \A c \in Callers :
        Succeeded(c) =>
            /\ Sample(c).insufficient_data = (call[c].outcome = "empty")
            /\ Sample(c).errors = <<>>
            /\ last_check_res = Some([time |-> Unwrap(okDone).time, data |-> Sample(c)])

C5_Witness ==
    \E c \in Callers :
        Succeeded(c) /\ call[c].outcome = "empty" /\ Sample(c).insufficient_data

\* the age of the entry, when there is one
Age == clock - Unwrap(last_check_res).time

\* C19: a call that gets the lock returns the cached TickerData, sending no
\* request, exactly when there is an entry less than 5 s old; with no entry
\* or one of 5 s or more it sends a request, and when that request fails it
\* returns the failure, not the entry.
C19_TtlRule ==
    [][\A c \in Callers :
         /\ (pc[c] = "lock" /\ pc'[c] # "lock") =>
               IF IsSome(last_check_res) /\ Age < 5
               THEN /\ pc'[c] = "done"
                    /\ ret'[c] = Some(Unwrap(last_check_res).data)
                    /\ ~call'[c].issued
                    /\ starts' = starts
               ELSE /\ pc'[c] = "query"
                    /\ call'[c].issued
                    /\ starts'[Len(starts')] = clock
         /\ (pc[c] = "query" /\ pc'[c] = "done" /\ call'[c].outcome \in FailureOutcomes) =>
               /\ Unwrap(ret'[c]).errors # <<>>
               /\ Unwrap(ret'[c]).last_price = None
               /\ IsSome(last_check_res) => Unwrap(ret'[c]) # Unwrap(last_check_res).data]_vars

\* an entry of exactly 5 s was not served: the request sent instead failed,
\* and the caller has the failure
C19_Witness ==
    \E c \in Callers :
        /\ Returned(c) /\ call[c].issued /\ lastFailed
        /\ Sample(c).errors # <<>>
        /\ IsSome(last_check_res) /\ Age = TTL

-----------------------------------------------------------------------------
(* median (aggregator.rs) *)

\* data.sort(): ascending, by insertion
RECURSIVE Insert(_, _)
Insert(x, s) ==
    IF s = <<>> THEN <<x>>
    ELSE IF x <= Head(s) THEN <<x>> \o s
    ELSE <<Head(s)>> \o Insert(x, Tail(s))

RECURSIVE Sort(_)
Sort(s) == IF s = <<>> THEN <<>> ELSE Insert(Head(s), Sort(Tail(s)))

\* a slip: the upper middle element, whatever the parity
Median_UpperMiddle(d) ==
    LET sorted == Sort(d)
        size == Len(sorted)
    IN IF size = 0 THEN None ELSE Some(sorted[size \div 2 + 1])

\* Indices are 1-based here: data[size / 2 - 1] and data[size / 2] are
\* sorted[size \div 2] and sorted[size \div 2 + 1].  The sum of two Decimals of
\* the model is even, so the division by Decimal 2 is exact.
Median(d) ==
    LET sorted == Sort(d)
        size == Len(sorted)
    IN IF size = 0 THEN None
       ELSE Some(IF size % 2 = 0
                 THEN (sorted[size \div 2] + sorted[size \div 2 + 1]) \div 2
                 ELSE sorted[size \div 2 + 1])

\* the decimals median is tried on
MedianValues == {DecScale * v : v \in {1, 2, 3, 5, 8, 9}}

InitMedian ==
    /\ mdata \in SeqsUpTo(MedianValues, MaxLen)
    /\ mpc = "input"
    /\ mres = None

ParkedMedian == mdata = <<>> /\ mpc = "input" /\ mres = None

RunMedian ==
    /\ mpc = "input"
    /\ mres' = Median(mdata)
    /\ mpc' = "done"
    /\ UNCHANGED mdata
    /\ OnlyMedian

-----------------------------------------------------------------------------
(* Aggregator (aggregator.rs), over leaf sources that no other task calls *)

MemberKinds == <<"binance", "coinbase", "kraken", "yfinance", "goldprice">>
MemberKind(i) == MemberKinds[((i - 1) % Len(MemberKinds)) + 1]
Members == 1..nmembers

\* What a member's vendor answers: as PlainResponses, or an answer whose
\* price cannot be read, or (Yahoo) one with no point at all.
MemberResponses(k) ==
    PlainResponses(k) \cup
    IF k = "yfinance"
    THEN {[transport |-> "ok", quotes |-> <<>>],
          [transport |-> "ok", quotes |-> <<[close |-> NaN, adjclose |-> 0]>>]}
    ELSE {[transport |-> "ok", err |-> Null, last |-> Null, prev |-> Null]}

RECURSIVE Flatten(_)
Flatten(ss) == IF ss = <<>> THEN <<>> ELSE Head(ss) \o Flatten(Tail(ss))

\* prices.iter().flat_map(|t| t.last_price).collect(), and so on
LastPriceVec(prices) == Flatten([i \in DOMAIN prices |-> prices[i].last_price])

\* a slip: the previous prices collected from t.last_price as well
PrevPriceVec_FromLast(prices) == Flatten([i \in DOMAIN prices |-> prices[i].last_price])

PrevPriceVec(prices) == Flatten([i \in DOMAIN prices |-> prices[i].prev_price])
ErrorsVec(prices) == Flatten([i \in DOMAIN prices |-> prices[i].errors])

\* a slip: || for &&
Insufficient_Either(len, count) == len = 0 \/ count < len \/ count < Quorum

\* a slip: the test for no source at all is left out
Insufficient_NoEmptyCheck(len, count) == count < len /\ count < Quorum

\* self.sources.len() == 0 || (last_price_vec.len() < self.sources.len()
\*                             && last_price_vec.len() < 3)
Insufficient(len, count) == len = 0 \/ (count < len /\ count < Quorum)

\* a slip: a member's insufficient_data is passed on
Aggregate_InheritsFlag(len, prices) ==
    TickerData(Median(LastPriceVec(prices)),
               Median(PrevPriceVec(prices)),
               Insufficient(len, Len(LastPriceVec(prices)))
                   \/ \E i \in DOMAIN prices : prices[i].insufficient_data,
               ErrorsVec(prices))

\* the TickerData built from join_all's output
Aggregate(len, prices) ==
    TickerData(Median(LastPriceVec(prices)),
               Median(PrevPriceVec(prices)),
               Insufficient(len, Len(LastPriceVec(prices))),
               ErrorsVec(prices))

\* join_all: an output is kept at its future's position,

\* a slip: outputs are kept in the order of arrival
JoinStore_Arrival(s, i, t) ==
    LET j == CHOOSE j \in DOMAIN s : s[j] = None /\ \A l \in 1..(j - 1) : s[l] # None
    IN [s EXCEPT ![j] = Some(t)]

JoinStore(s, i, t) == [s EXCEPT ![i] = Some(t)]

\* a slip: try_join_all, which is over as soon as one member fails
JoinReady_FailFast(s) ==
    \/ \A i \in DOMAIN s : IsSome(s[i])
    \/ \E i \in DOMAIN s : IsSome(s[i]) /\ Unwrap(s[i]).errors # <<>>

\* it is ready when every future has completed,
JoinReady(s) == \A i \in DOMAIN s : IsSome(s[i])

\* and it yields the outputs in the order of the futures
JoinOutput(s) ==
    LET done == SelectSeq(s, IsSome)
    IN [i \in DOMAIN done |-> Unwrap(done[i])]

InitAgg ==
    /\ nmembers \in 0..MaxMembers
    /\ apc = "idle"
    /\ slots = [i \in Members |-> None]
    /\ produced = [i \in Members |-> None]
    /\ outOfOrder = FALSE
    /\ aret = None

ParkedAgg ==
    /\ nmembers = 0
    /\ apc = "idle"
    /\ slots = <<>>
    /\ produced = <<>>
    /\ outOfOrder = FALSE
    /\ aret = None

\* get_ticker_data is called: join_all polls every member's get_ticker_data
\* once, in order; each takes its lock, finds no entry and sends its request
AggCall ==
    /\ apc = "idle"
    /\ apc' = "joining"
    /\ produced' = [i \in Members |-> None]
    /\ slots' = [i \in Members |-> None]
    /\ outOfOrder' = FALSE
    /\ UNCHANGED <<nmembers, aret>>
    /\ OnlyAgg

\* member i's run_query returns and its get_ticker_data completes
MemberRespond(i, resp) ==
    /\ apc = "joining"
    /\ produced[i] = None
    /\ LET t == QueryTickerData(MemberKind(i), RunQuery(MemberKind(i), resp))
       IN /\ produced' = [produced EXCEPT ![i] = Some(t)]
          /\ slots' = JoinStore(slots, i, t)
    /\ outOfOrder' = (outOfOrder \/ \E j \in 1..(i - 1) : produced[j] = None)
    /\ UNCHANGED <<nmembers, apc, aret>>
    /\ OnlyAgg

\* join_all completes and the TickerData is built and returned
AggReturn ==
    /\ apc = "joining"
    /\ JoinReady(slots)
    /\ aret' = Some(Aggregate(nmembers, JoinOutput(slots)))
    /\ apc' = "done"
    /\ UNCHANGED <<nmembers, slots, produced, outOfOrder>>
    /\ OnlyAgg

-----------------------------------------------------------------------------
(* Claims about the Aggregator and median *)

Range(s) == {s[i] : i \in DOMAIN s}
CountBelow(s, x) == Cardinality({i \in DOMAIN s : s[i] < x})
CountUpTo(s, x) == Cardinality({i \in DOMAIN s : s[i] <= x})

\* the k-th smallest element of s, by rank
Kth(s, k) == CHOOSE x \in Range(s) : CountBelow(s, x) < k /\ k <= CountUpTo(s, x)

\* m is the median of s: nothing for no element, the middle one for an odd
\* count, the mean of the two middle ones for an even count
IsMedian(m, s) ==
    LET size == Len(s)
    IN IF size = 0 THEN m = None
       ELSE IF size % 2 = 1 THEN m = Some(Kth(s, size \div 2 + 1))
       ELSE IsSome(m) /\ 2 * Unwrap(m) = Kth(s, size \div 2) + Kth(s, size \div 2 + 1)

AggReturned == apc = "done"
AggSample == Unwrap(aret)
MemberSample(i) == Unwrap(produced[i])

\* the members whose result carries a last price
Responding == {i \in Members : IsSome(produced[i]) /\ IsSome(MemberSample(i).last_price)}

\* C6: insufficient_data = (nmembers = 0) or (k < nmembers and k < 3) for k members with a
\* last price; with no member, both prices are None and errors is empty.
C6_ConfidenceFlag ==
    AggReturned =>
        LET k == Cardinality(Responding)
        IN /\ AggSample.insufficient_data = ((nmembers = 0) \/ (k < nmembers /\ k < 3))
           /\ nmembers = 0 => /\ AggSample.last_price = None
                       /\ AggSample.prev_price = None
                       /\ AggSample.errors = <<>>

\* five members, two of them without a last price, and the flag is not set
C6_Witness ==
    AggReturned /\ nmembers = 5 /\ Cardinality(Responding) = 3 /\ ~AggSample.insufficient_data

\* C7: median returns None for no element, the middle element of the ascending
\* order for an odd count and the mean of the two middle elements for an even
\* count, in whatever order the elements are supplied.
C7_Median ==
    mpc = "done" =>
        /\ IsMedian(mres, mdata)
        /\ \A other \in SeqsUpTo(Range(mdata), Len(mdata)) :
              (Len(other) = Len(mdata)
               /\ \A x \in Range(mdata) : CountUpTo(other, x) = CountUpTo(mdata, x))
              => Median(other) = mres

\* median([1, 2, 8, 9]) = 5, supplied as 9, 1, 8, 2
C7_Witness ==
    /\ mpc = "done"
    /\ mdata = <<DecScale * 9, DecScale * 1, DecScale * 8, DecScale * 2>>
    /\ mres = Some(DecScale * 5)

RECURSIVE ErrorsUpTo(_)
ErrorsUpTo(i) == IF i = 0 THEN <<>> ELSE ErrorsUpTo(i - 1) \o MemberSample(i).errors

\* C8: the Aggregator's errors are the members' errors, concatenated in the
\* order the members are declared, whatever the order they completed in.
C8_ErrorOrder == AggReturned => AggSample.errors = ErrorsUpTo(nmembers)

\* two members with different errors, the later declared completing first
C8_Witness ==
    /\ AggReturned
    /\ outOfOrder
    /\ \E i, j \in Members :
          /\ i < j
          /\ MemberSample(i).errors # <<>>
          /\ MemberSample(j).errors # <<>>
          /\ MemberSample(i).errors # MemberSample(j).errors

RECURSIVE PresentUpTo(_, _)
PresentUpTo(field, i) ==
    IF i = 0 THEN <<>> ELSE PresentUpTo(field, i - 1) \o MemberSample(i)[field]

\* C9: the Aggregator returns only when every member has returned, it always
\* returns a TickerData, and its prices are the medians over every member
\* that has a price, whichever members failed.
C9_WaitsForAll ==
    AggReturned =>
        /\ \A i \in Members : IsSome(produced[i])
        /\ IsSome(aret)
        /\ IsMedian(AggSample.last_price, PresentUpTo("last_price", nmembers))
        /\ IsMedian(AggSample.prev_price, PresentUpTo("prev_price", nmembers))

\* a member failed, another has a price, and the result has one
C9_Witness ==
    /\ AggReturned
    /\ \E i, j \in Members :
          /\ MemberSample(i).errors # <<>>
          /\ IsSome(MemberSample(j).last_price)
    /\ IsSome(AggSample.last_price)

\* the members whose result carries a previous price
WithPrev == {i \in Members : IsSome(produced[i]) /\ IsSome(MemberSample(i).prev_price)}

\* the Kraken members whose request succeeded
KrakenOk == {i \in Members : MemberKind(i) = "kraken" /\ MemberSample(i).errors = <<>>}

\* the values of a field over the members of a set, in the order declared
RECURSIVE ValuesOf(_, _, _)
ValuesOf(field, set, i) ==
    IF i = 0 THEN <<>>
    ELSE ValuesOf(field, set, i - 1)
         \o (IF i \in set THEN <<Unwrap(MemberSample(i)[field])>> ELSE <<>>)

\* C22: last_price is the median of the last prices of exactly the members
\* that have one, prev_price the median of the previous prices of exactly the
\* members that have one, whatever the other field of a member is; a Kraken
\* member that succeeded has a last price and no previous price, so it is in
\* the first set, counts for the quorum, and is not in the second set.
C22_IndependentMedians ==
    AggReturned =>
        /\ IsMedian(AggSample.last_price, ValuesOf("last_price", Responding, nmembers))
        /\ IsMedian(AggSample.prev_price, ValuesOf("prev_price", WithPrev, nmembers))
        /\ IsSome(AggSample.last_price) <=> Responding # {}
        /\ IsSome(AggSample.prev_price) <=> WithPrev # {}
        /\ KrakenOk \subseteq Responding \ WithPrev
        /\ IsMedian(AggSample.prev_price,
                    ValuesOf("prev_price", WithPrev \ KrakenOk, nmembers))
        /\ (nmembers > 0 /\ Cardinality(Responding) >= Quorum) => ~AggSample.insufficient_data

\* Binance, Coinbase and Kraken all answered; Kraken makes the quorum while the
\* previous price is the median of two values and differs from the last price
C22_Witness ==
    /\ AggReturned
    /\ nmembers = 3
    /\ KrakenOk = {3}
    /\ Responding = {1, 2, 3}
    /\ WithPrev = {1, 2}
    /\ ~AggSample.insufficient_data
    /\ IsSome(AggSample.prev_price)
    /\ AggSample.prev_price # AggSample.last_price

-----------------------------------------------------------------------------
(* An Aggregator as a member of an Aggregator: sources is a                  *)
(* Vec<Box<dyn TickerDataSource>> and Aggregator implements the trait.       *)

\* the inner Aggregator's members: two of those main.rs gives a crypto aggregator
InnerKinds == <<"binance", "kraken">>
InnerAnswers ==
    UNION {{r \in [1..m -> UNION {MemberResponses(InnerKinds[j]) : j \in 1..Len(InnerKinds)}] :
               \A j \in 1..m : r[j] \in MemberResponses(InnerKinds[j])} : m \in 0..Len(InnerKinds)}

\* the member that is an Aggregator
IsInner(i) == i = 1

\* the inner Aggregator's get_ticker_data completes: its own members have all
\* returned and it returns the TickerData it builds from them
InnerRespond(i, resps) ==
    /\ apc = "joining"
    /\ i \in Members
    /\ IsInner(i)
    /\ produced[i] = None
    /\ LET samples == [j \in DOMAIN resps |->
                          QueryTickerData(InnerKinds[j], RunQuery(InnerKinds[j], resps[j]))]
           t == Aggregate(Len(resps), JoinOutput([j \in DOMAIN samples |-> Some(samples[j])]))
       IN /\ produced' = [produced EXCEPT ![i] = Some(t)]
          /\ slots' = JoinStore(slots, i, t)
          /\ inner' = Some(samples)
    /\ outOfOrder' = (outOfOrder \/ \E j \in 1..(i - 1) : produced[j] = None)
    /\ UNCHANGED <<nmembers, apc, aret>>
    /\ UNCHANGED <<dsVars, medVars, monVars, yahooVars, shVars>>

InnerSamples == Unwrap(inner)
InnerValues(field) == Flatten([j \in DOMAIN InnerSamples |-> InnerSamples[j][field]])

\* C24: the inner Aggregator's result is its own consensus; the outer one
\* takes it as one member's value for each price and its errors at its place,
\* and the outer insufficient_data depends on the member count and the number of
\* members with a last price only, never on a member's insufficient_data.
C24_Nested ==
    (AggReturned /\ nmembers >= 1) =>
        /\ IsSome(inner)
        /\ IsMedian(MemberSample(1).last_price, InnerValues("last_price"))
        /\ IsMedian(MemberSample(1).prev_price, InnerValues("prev_price"))
        /\ MemberSample(1).errors = InnerValues("errors")
        /\ IsMedian(AggSample.last_price, PresentUpTo("last_price", nmembers))
        /\ IsMedian(AggSample.prev_price, PresentUpTo("prev_price", nmembers))
        /\ Len(PresentUpTo("last_price", nmembers)) <= nmembers
        /\ AggSample.errors = ErrorsUpTo(nmembers)
        /\ LET k == Cardinality(Responding)
           IN AggSample.insufficient_data = (k < nmembers /\ k < Quorum)

\* the inner Aggregator had a price from one of its two members and reported
\* insufficient_data; the outer one, all of whose members had a price, did not
C24_Witness ==
    /\ AggReturned
    /\ nmembers = 2
    /\ IsSome(inner)
    /\ Len(InnerSamples) = 2
    /\ Len(InnerValues("last_price")) = 1
    /\ MemberSample(1).insufficient_data
    /\ MemberSample(1).errors # <<>>
    /\ Responding = {1, 2}
    /\ ~AggSample.insufficient_data
    /\ AggSample.errors = MemberSample(1).errors

\* every TickerData returned so far: by the leaf members, by the inner
\* Aggregator's leaf members, by the inner Aggregator, by the outer one
ReturnedSamples ==
    {MemberSample(i) : i \in {j \in Members : IsSome(produced[j])}}
    \cup (IF IsSome(inner) THEN Range(InnerSamples) ELSE {})
    \cup (IF IsSome(aret) THEN {AggSample} ELSE {})

\* C27: a TickerData whose insufficient_data is false has a last price; one
\* without a last price has insufficient_data set.
C27_FlagCoversMissingPrice ==
    \A t \in ReturnedSamples :
        /\ ~t.insufficient_data => IsSome(t.last_price)
        /\ t.last_price = None => t.insufficient_data

\* a Yahoo member succeeded with no point, an Aggregator of no member has
\* returned to the outer one, and the outer one has a price and no flag
C27_Witness ==
    /\ AggReturned
    /\ nmembers = 5
    /\ IsSome(inner)
    /\ InnerSamples = <<>>
    /\ MemberSample(1).last_price = None
    /\ MemberSample(4).errors = <<>>
    /\ MemberSample(4).last_price = None
    /\ IsSome(AggSample.last_price)
    /\ ~AggSample.insufficient_data

-----------------------------------------------------------------------------
(* Tasks of the bot that call one Aggregator at the same time: each member   *)
(* is a leaf source with its own Mutex and entry.  All of it happens within  *)
(* one TTL, at Instant 0.                                                    *)

SharedKinds == <<"binance", "kraken">>
Sources == 1..Len(SharedKinds)

InitShared ==
    /\ entries = [i \in Sources |-> None]
    /\ locks = [i \in Sources |-> <<>>]
    /\ fpc = [t \in Callers |-> [i \in Sources |-> "idle"]]
    /\ fret = [t \in Callers |-> [i \in Sources |-> None]]
    /\ tpc = [t \in Callers |-> "idle"]
    /\ tret = [t \in Callers |-> None]

\* a slip: no Mutex, every task is let in
LockGranted_Always(queue, t) == TRUE

\* the fair Mutex gives the lock to the task that has waited longest
LockGranted(queue, t) == queue # <<>> /\ Head(queue) = t

\* a slip: the guard outlives the call (it is leaked)
Released_Never(queue, t) == queue

\* the guard is dropped: the task leaves the Mutex
Released(queue, t) == SelectSeq(queue, LAMBDA u : u # t)

\* a task calls the Aggregator's get_ticker_data: join_all is built
TCall(t) ==
    /\ tpc[t] = "idle"
    /\ tpc' = [tpc EXCEPT ![t] = "joining"]
    /\ UNCHANGED <<entries, locks, fpc, fret, tret>>
    /\ OnlyShared

\* join_all polls member i's get_ticker_data for the first time, after the
\* members declared before it: it asks for the source's lock
FStart(t, i) ==
    /\ tpc[t] = "joining"
    /\ fpc[t][i] = "idle"
    /\ \A j \in 1..(i - 1) : fpc[t][j] # "idle"
    /\ fpc' = [fpc EXCEPT ![t][i] = "lock"]
    /\ locks' = [locks EXCEPT ![i] = Append(@, t)]
    /\ UNCHANGED <<entries, fret, tpc, tret>>
    /\ OnlyShared

\* lock().await returns: the cache check, and either the early return of the
\* clone (the guard dropped) or the start of run_query
FAcquire(t, i) ==
    /\ fpc[t][i] = "lock"
    /\ LockGranted(locks[i], t)
    /\ IF Fresh(entries[i], 0)
       THEN /\ fret' = [fret EXCEPT ![t][i] = Some(Unwrap(entries[i]).data)]
            /\ fpc' = [fpc EXCEPT ![t][i] = "done"]
            /\ locks' = [locks EXCEPT ![i] = Released(@, t)]
       ELSE /\ fpc' = [fpc EXCEPT ![t][i] = "query"]
            /\ UNCHANGED <<fret, locks>>
    /\ UNCHANGED <<entries, tpc, tret>>
    /\ OnlyShared

\* run_query().await returns: the match, the store on Ok, the return and the
\* drop of the guard
FRespond(t, i, resp) ==
    /\ fpc[t][i] = "query"
    /\ LET res == RunQuery(SharedKinds[i], resp)
           td == QueryTickerData(SharedKinds[i], res)
       IN /\ entries' = [entries EXCEPT ![i] = StoreOnOk(res, 0, td, @)]
          /\ fret' = [fret EXCEPT ![t][i] = Some(td)]
    /\ fpc' = [fpc EXCEPT ![t][i] = "done"]
    /\ locks' = [locks EXCEPT ![i] = Released(@, t)]
    /\ UNCHANGED <<tpc, tret>>
    /\ OnlyShared

\* join_all completes and the Aggregator returns
TReturn(t) ==
    /\ tpc[t] = "joining"
    /\ JoinReady(fret[t])
    /\ tret' = [tret EXCEPT ![t] = Some(Aggregate(Len(SharedKinds), JoinOutput(fret[t])))]
    /\ tpc' = [tpc EXCEPT ![t] = "done"]
    /\ UNCHANGED <<entries, locks, fpc, fret>>
    /\ OnlyShared

\* the tasks whose request to source i is in flight
InFlight(i) == {t \in Callers : fpc[t][i] = "query"}

\* task t is inside the critical section of source i
Inside(t, i) == fpc[t][i] = "query"

\* C26: a source has at most one request in flight; from the cache check of a
\* fetch to its cache write, no other fetch of the same source passes its own
\* cache check, sends a request or writes the entry.
C26_MutualExclusion ==
    /\ [](\A i \in Sources : Cardinality(InFlight(i)) <= 1)
    /\ [][\A i \in Sources : \A t \in Callers :
            Inside(t, i) =>
                /\ \A u \in Callers \ {t} :
                      /\ ~Inside(u, i)'
                      /\ fret'[u][i] = fret[u][i]
                      /\ fpc[u][i] = "lock" => fpc'[u][i] = "lock"
                /\ entries'[i] # entries[i] => ~Inside(t, i)']_vars

\* two sources have a request in flight at the same time, from different
\* tasks, while a task waits for the lock of a source whose request is in flight
C26_Witness ==
    /\ InFlight(1) = {2}
    /\ InFlight(2) = {1}
    /\ fpc[1][1] = "lock"

\* task t holds the lock of source i / waits for it behind another task
Holds(t, i) == fpc[t][i] = "query"
WaitsFor(t, i) == fpc[t][i] = "lock" /\ Head(locks[i]) # t

\* every call that has begun returns: a leaf get_ticker_data, the
\* Aggregator's get_ticker_data, query and query_cmp
EveryCallReturns ==
    [](/\ \A t \in Callers : \A i \in Sources : fpc[t][i] = "lock" => <>(fpc[t][i] = "done")
       /\ \A t \in Callers : tpc[t] = "joining" => <>(tpc[t] = "done")
       /\ \A op \in {"query", "query_cmp"} :
             (qpc = "lock" /\ qop = op) => <>(qpc = "done" /\ qop = op /\ ~("query" \in locked)))

\* C25 as stated: every call returns, and no task waits for one lock while it
\* holds another.
C25_ProgressNoHoldAndWait ==
    /\ EveryCallReturns
    /\ [](\A t \in Callers : \A i, j \in Sources : ~(Holds(t, i) /\ WaitsFor(t, j)))

\* C25, amended: every call returns; a task that joins several sources may
\* hold the lock of one while it waits for the lock of another, but whoever
\* is ahead in a lock's queue is a fetch that waits for that lock's grant or
\* for its own upstream request and for nothing else, and the holder of the
\* History lock waits for nothing.
C25_Progress ==
    /\ EveryCallReturns
    /\ [](\A i \in Sources : \A n \in DOMAIN locks[i] :
             /\ fpc[locks[i][n]][i] \in {"lock", "query"}
             /\ fpc[locks[i][n]][i] = "query" => n = 1
             /\ \A m \in DOMAIN locks[i] : locks[i][m] = locks[i][n] => m = n)
    /\ []("query" \in locked => qpc = "held")
    /\ []("monitor" \in locked => loop = "storing")

\* each of two tasks holds the lock of one source and waits for the lock the
\* other holds, while the query waits for the History lock the poller holds
C25_Witness ==
    /\ Holds(1, 2) /\ WaitsFor(1, 1)
    /\ Holds(2, 1) /\ WaitsFor(2, 2)
    /\ qpc = "lock"
    /\ "monitor" \in locked

-----------------------------------------------------------------------------
(* CoinbaseMonitor (coinbase_monitor.rs) *)

\* An element of the catalog array: an object that has the fields of a Product,
\* or one that lacks some (id: None).
Element(id, name) == [id |-> id, display_name |-> name]
Btc(name) == Element(Some("BTC-USD"), name)
Eth == Element(Some("ETH-USD"), "Ether")
Malformed == Element(None, "?")

\* What the listing endpoint answers: a failed transport, an object with a
\* `message`, an object without, or an array.
CatalogObject(message) == [transport |-> "ok", type |-> "object", message |-> message, items |-> <<>>]
CatalogArray(items) == [transport |-> "ok", type |-> "array", message |-> Null, items |-> items]
CatalogFailed(t) == [transport |-> t, type |-> "none", message |-> Null, items |-> <<>>]

CatalogResponses ==
    {CatalogFailed("error"), CatalogObject(JStr("E")), CatalogObject(Null),
     CatalogArray(<<Btc("Bitcoin")>>),
     CatalogArray(<<Btc("BTC"), Eth>>),
     CatalogArray(<<Malformed>>)}

\* arrays of every make-up: elements that parse, elements that do not, two
\* elements of one id
CatalogItems == {Btc("Bitcoin"), Btc("BTC"), Eth, Malformed}
ArrayResponses == {CatalogArray(items) : items \in SeqsUpTo(CatalogItems, MaxItems)}

\* the answers that differ in how an iteration ends: the three failures and a catalog
PollOutcomes ==
    {CatalogFailed("error"), CatalogObject(JStr("E")), CatalogObject(Null),
     CatalogArray(<<Btc("Bitcoin")>>)}

\* a slip: the root of the answer is not looked at
QueryProducts_NoArrayCheck(resp) ==
    IF TransportFailed(resp.transport) THEN Err(TransportMessage(resp.transport))
    ELSE IF resp.message # Null THEN Err("Coinbase monitor: E")
    ELSE Ok(resp.items)

\* query_products
QueryProducts(resp) ==
    IF TransportFailed(resp.transport) THEN Err(TransportMessage(resp.transport))
    ELSE IF resp.message # Null THEN Err("Coinbase monitor: E")
    ELSE IF resp.type # "array" THEN Err("Coinbase monitor: result is not array")
    ELSE Ok(resp.items)

\* serde_json::from_value(p).ok()
ParseProduct(e) ==
    IF IsSome(e.id) THEN Some([id |-> Unwrap(e.id), display_name |-> e.display_name]) ELSE None

\* a slip: the elements collected as a Result, so that one element that does
\* not parse leaves nothing
CollectProducts_AllOrNothing(items) ==
    IF \E i \in DOMAIN items : ~IsSome(items[i].id) THEN <<>>
    ELSE [k \in {Unwrap(items[i].id) : i \in DOMAIN items} |->
             LET i == CHOOSE i \in DOMAIN items :
                          /\ Unwrap(items[i].id) = k
                          /\ \A j \in DOMAIN items : Unwrap(items[j].id) = k => j <= i
             IN [id |-> k, display_name |-> items[i].display_name]]

\* .filter_map(..).map(|p| (p.id.clone(), p)).collect::<BTreeMap<_, _>>():
\* a later element replaces an earlier one of the same id
RECURSIVE CollectProducts(_)
CollectProducts(items) ==
    IF items = <<>> THEN <<>>
    ELSE LET rest == CollectProducts(SubSeq(items, 1, Len(items) - 1))
             p == ParseProduct(items[Len(items)])
         IN IF IsSome(p)
            THEN [k \in DOMAIN rest \cup {Unwrap(p).id} |->
                      IF k = Unwrap(p).id THEN Unwrap(p) ELSE rest[k]]
            ELSE rest

\* a slip: the bound of the window is left out
Retained_Strict(history, t) ==
    SelectSeq(history, LAMBDA e : t - Retention < e.time)

\* .filter(|(time, _)| &(now - Duration::from_secs(3600 * 24)) <= time)
Retained(history, t) ==
    SelectSeq(history, LAMBDA e : t - Retention <= e.time)

\* a slip: the window is taken from a second, later reading of the clock
Updated_TwoReadings(history, t, snap) == Append(Retained(history, t + 1), snap)

\* a slip: the new snapshot is not pushed
Updated_NoPush(history, t, snap) == Retained(history, t)

\* let mut updated = data.iter().filter(..).cloned().collect(); updated.push((now, products))
Updated(history, t, snap) == Append(Retained(history, t), snap)

\* a slip: the lock is granted whoever holds a guard
MutexFree_Always(l) == TRUE

\* tokio's Mutex grants the lock when no guard is alive
MutexFree(l) == l = {}

\* a slip: the guard is declared outside the loop and lives on
GuardDropped_Kept(l, t) == l

\* the guard goes out of scope: at the end of the Ok arm, at the end of a query
GuardDropped(l, t) == l \ {t}

\* a slip: `?` on the poll, the error leaves the loop
AfterError_Returns == "returned"

\* Err(err) => error!("{}", err): the arm falls through to the sleep
AfterError == "sleeping"

\* the length of a sleep: tokio's sleep(3600 s) returns after an hour; a longer
\* one stands for the polls in between having failed
SleepHours == {PollInterval, 4 * PollInterval, 20 * PollInterval}

\* by how much an adjustment sets the system clock back
SetBackHours == 2 * PollInterval

queryVars == <<qpc, qop, qarg, qret>>

InitQuery ==
    /\ qpc = "idle"
    /\ qop = "query"
    /\ qarg = "BTC"
    /\ qret = None

InitMon ==
    /\ wall = 0
    /\ data = <<>>
    /\ dataMutex = <<>>
    /\ loop = "top"
    /\ now = 0
    /\ products = <<>>
    /\ polls = 0
    /\ dropped = 0
    /\ answer = None
    /\ locked = {}
    /\ naps = 0
    /\ InitQuery

\* loop { let now = SystemTime::now(); self.query_products() is sent
PollStart ==
    /\ loop = "top"
    /\ polls < MaxPolls
    /\ polls' = polls + 1
    /\ now' = wall
    /\ loop' = "fetching"
    /\ answer' = None
    /\ naps' = 0
    /\ UNCHANGED <<wall, data, dataMutex, products, dropped, locked, queryVars>>
    /\ OnlyMon

\* query_products().await returns, the wall clock reading `took` later: on Ok
\* the products are collected and the lock is asked for, on Err the error is
\* logged and the sleep begins
PollRespond(resp, took) ==
    /\ loop = "fetching"
    /\ wall' = wall + took
    /\ answer' = Some(resp)
    /\ LET res == QueryProducts(resp)
       IN IF res.ok
          THEN /\ products' = CollectProducts(res.val)
               /\ dataMutex' = Append(dataMutex, "monitor")
               /\ loop' = "locking"
          ELSE /\ loop' = AfterError
               /\ UNCHANGED <<products, dataMutex>>
    /\ UNCHANGED <<data, now, polls, dropped, locked, naps, queryVars>>
    /\ OnlyMon

\* self.data.lock().await returns the guard
PollLock ==
    /\ loop = "locking"
    /\ Head(dataMutex) = "monitor"
    /\ MutexFree(locked)
    /\ locked' = locked \cup {"monitor"}
    /\ dataMutex' = Tail(dataMutex)
    /\ loop' = "storing"
    /\ UNCHANGED <<wall, data, now, products, polls, dropped, answer, naps, queryVars>>
    /\ OnlyMon

\* filter, push, *data = updated; the guard is dropped and the sleep begins
PollStore ==
    /\ loop = "storing"
    /\ LET updated == Updated(data, now, [time |-> now, products |-> products])
       IN /\ data' = updated
          /\ dropped' = Len(data) + 1 - Len(updated)
    /\ locked' = GuardDropped(locked, "monitor")
    /\ loop' = "sleeping"
    /\ UNCHANGED <<wall, dataMutex, now, products, polls, answer, naps, queryVars>>
    /\ OnlyMon

\* tokio::time::sleep(3600 s).await returns
Wake(slept) ==
    /\ loop = "sleeping"
    /\ wall' = wall + slept
    /\ loop' = "top"
    /\ naps' = naps + 1
    /\ UNCHANGED <<data, dataMutex, now, products, polls, dropped, answer, locked, queryVars>>
    /\ OnlyMon

\* SystemTime is not monotonic: the system clock is set back while the loop
\* sleeps (once in a sleep: wall >= now says it has not been yet)
ClockSetBack ==
    /\ loop = "sleeping"
    /\ wall >= now
    /\ wall >= SetBackHours
    /\ wall' = wall - SetBackHours
    /\ UNCHANGED <<data, dataMutex, loop, now, products, polls, dropped, answer, locked, naps,
                   queryVars>>
    /\ OnlyMon

-----------------------------------------------------------------------------
(* The queries of the monitor: query (lookup) and query_cmp (diff), called   *)
(* by a task of the bot while the poll loop runs.                            *)

\* the catalogs that differ in what a query sees: a name changed, a product added
Catalogs ==
    {CatalogFailed("error"), CatalogArray(<<Btc("Bitcoin")>>), CatalogArray(<<Btc("BTC")>>),
     CatalogArray(<<Btc("BTC"), Eth>>)}

Tickers == {"BTC", "ETH", "ZZZ"}

\* a slip: the first entry is read instead of the last
Query_Oldest(history, ticker) ==
    IF history = <<>> THEN None
    ELSE LET listed == history[1].products
             id == ticker \o "-USD"
         IN IF id \in DOMAIN listed THEN Some(listed[id]) ELSE None

\* data.last().and_then(|(_, products)| products.get(&format!("{}-USD", ticker)).cloned())
Query(history, ticker) ==
    IF history = <<>> THEN None
    ELSE LET listed == history[Len(history)].products
             id == ticker \o "-USD"
         IN IF id \in DOMAIN listed THEN Some(listed[id]) ELSE None

\* a slip: keys_only = true, values are not compared
JsonDiff_KeysOnly(a, b) ==
    LET removed == DOMAIN a \ DOMAIN b
        added == DOMAIN b \ DOMAIN a
    IN IF removed = {} /\ added = {} THEN None
       ELSE Some([removed |-> removed, added |-> added, changed |-> {}])

\* JsonDiff::diff_string(a, b, false): None when the two values are
\* structurally equal, else the keys removed, added and changed
JsonDiff(a, b) ==
    LET removed == DOMAIN a \ DOMAIN b
        added == DOMAIN b \ DOMAIN a
        changed == {k \in DOMAIN a \cap DOMAIN b : a[k] # b[k]}
    IN IF removed = {} /\ added = {} /\ changed = {} THEN None
       ELSE Some([removed |-> removed, added |-> added,
                  changed |-> {<<k, a[k], b[k]>> : k \in changed}])

\* now.duration_since(time).map(pretty_duration).unwrap_or("[error]")
Elapsed(t, time) == IF t >= time THEN Ok(t - time) ELSE Err("[error]")

\* query_cmp: the report on the first and the last entry, read at clock t
QueryCmp(history, t) ==
    IF history = <<>> THEN None
    ELSE LET first == history[1]
             last == history[Len(history)]
             res == JsonDiff(first.products, last.products)
         IN IF res = None THEN None
            ELSE Some([diff |-> Unwrap(res),
                       updated |-> Elapsed(t, last.time),
                       comparing |-> Elapsed(t, first.time)])

\* a task calls query(ticker) or query_cmp() and asks for the lock
QCall(op, ticker) ==
    /\ qpc \in {"idle", "done"}
    /\ qpc' = "lock"
    /\ qop' = op
    /\ qarg' = ticker
    /\ qret' = None
    /\ dataMutex' = Append(dataMutex, "query")
    /\ UNCHANGED <<wall, data, loop, now, products, polls, dropped, answer, locked, naps>>
    /\ OnlyMon

\* self.data.lock().await returns the guard
QLock ==
    /\ qpc = "lock"
    /\ Head(dataMutex) = "query"
    /\ MutexFree(locked)
    /\ locked' = locked \cup {"query"}
    /\ dataMutex' = Tail(dataMutex)
    /\ qpc' = "held"
    /\ UNCHANGED <<wall, data, loop, now, products, polls, dropped, answer, naps, qop, qarg,
                   qret>>
    /\ OnlyMon

\* the body runs, the guard is dropped, the call returns
QReturn ==
    /\ qpc = "held"
    /\ qret' = IF qop = "query" THEN Query(data, qarg) ELSE QueryCmp(data, wall)
    /\ locked' = GuardDropped(locked, "query")
    /\ qpc' = "done"
    /\ UNCHANGED <<wall, data, dataMutex, loop, now, products, polls, dropped, answer, naps,
                   qop, qarg>>
    /\ OnlyMon

ParkedMon ==
    /\ wall = 0
    /\ data = <<>>
    /\ dataMutex = <<>>
    /\ loop = "top"
    /\ now = 0
    /\ products = <<>>
    /\ polls = 0
    /\ dropped = 0
    /\ answer = None
    /\ locked = {}
    /\ naps = 0
    /\ InitQuery

-----------------------------------------------------------------------------
(* Claims about the monitor *)

\* the poll loop's update of the history
Updates == loop = "storing" /\ loop' = "sleeping"

\* C10: an update at `now` leaves exactly the entries captured at or after
\* now - 24 h, in their order, followed by the new snapshot; so every entry
\* is then at most 24 h older than the new one.
C10_Retention ==
    [][Updates =>
         /\ data' = Append(SelectSeq(data, LAMBDA e : e.time >= now - 24),
                           [time |-> now, products |-> products])
         /\ \A i \in DOMAIN data' : data'[i].time >= now - 24]_vars

\* an update has dropped an entry and kept the one captured exactly 24 h before
C10_Witness ==
    /\ loop = "sleeping"
    /\ dropped >= 1
    /\ Len(data) >= 2
    /\ data[1].time = now - 24

\* a failed poll: a transport error, an answer with a non-null `message`, or
\* an answer whose root is not an array
PollFailed(resp) ==
    \/ resp.transport # "ok"
    \/ resp.message # Null
    \/ resp.type # "array"

\* the iteration under way got an answer, and the poll failed
FailedPoll == IsSome(answer) /\ PollFailed(Unwrap(answer))

\* a successful poll completes
SuccessfulPollCompletes == Updates /\ IsSome(answer) /\ ~PollFailed(Unwrap(answer))

\* C11: the history is empty until the first successful poll completes, it is
\* not empty once one has, and no later step makes it empty again.
C11_NeverEmptyAgain ==
    /\ data = <<>>
    /\ [][/\ (data = <<>> /\ ~SuccessfulPollCompletes => data' = <<>>)
          /\ (SuccessfulPollCompletes => data' # <<>>)
          /\ (data # <<>> => data' # <<>>)]_vars

\* a populated history after a prune that left the new snapshot alone, and a
\* failed poll after that
C11_Witness == Len(data) = 1 /\ dropped >= 1 /\ FailedPoll /\ loop = "sleeping"

\* C12: from the answer of a failed poll until the next iteration starts, no
\* step changes the history, and the loop goes on to sleep.
C12_FailedPollKeepsHistory ==
    [][(IsSome(answer') /\ PollFailed(Unwrap(answer')))
         => data' = data /\ loop' \in {"sleeping", "top"}]_vars

\* a populated history, and an answer that is an object without `message`
C12_Witness ==
    /\ data # <<>>
    /\ loop = "sleeping"
    /\ answer = Some(CatalogObject(Null))

\* C16: every poll attempt, failed or not, is followed by a sleep and then by
\* the next attempt (here: up to the MaxPolls-th), with exactly one sleep
\* between two consecutive attempts.
C16_NeverStops ==
    /\ [][(loop \in {"fetching", "storing"} /\ loop' # loop)
             => (loop' \in {"locking", "sleeping"})]_vars
    /\ [][(loop = "top" /\ loop' = "fetching" /\ polls >= 1) => (naps = 1)]_vars
    /\ \A k \in 1..(MaxPolls - 1) : (polls = k) ~> (polls = k + 1 /\ loop = "fetching")

\* an attempt under way after nothing but failed polls
C16_Witness == polls >= 2 /\ loop = "fetching" /\ data = <<>> /\ naps = 0

\* C18 as stated: the history is ascending by the time of capture.
C18_Ascending ==
    \A i, j \in DOMAIN data : i < j => data[i].time <= data[j].time

\* C20 as stated: the snapshot appended carries the time at which it was built,
\* after the answer came.
C20_StampAtBuild ==
    [][Updates => data'[Len(data')].time = wall]_vars

\* C20, amended: `now` is read when the iteration starts, before the request
\* is sent, and is kept through the iteration; the snapshot appended carries
\* it, and the entries kept are those captured at or after it less 24 h.
C20_StampAtStart ==
    [][/\ (loop = "top" /\ loop' = "fetching" => now' = wall)
       /\ (loop \in {"fetching", "locking", "storing"} => now' = now)
       /\ (Updates =>
             LET stamp == data'[Len(data')].time
             IN /\ stamp = now
                /\ SubSeq(data', 1, Len(data') - 1)
                     = SelectSeq(data, LAMBDA e : e.time >= stamp - 24))]_vars

\* a snapshot stamped earlier than the clock read when it was stored
C20_Witness == loop = "sleeping" /\ data # <<>> /\ data[Len(data)].time = now /\ now < wall

\* a call of query / query_cmp returns
Returns(op) == qpc = "held" /\ qpc' = "done" /\ qop = op

\* the products a snapshot lists
Listed(snapshot) == {snapshot.products[k] : k \in DOMAIN snapshot.products}

\* C13: query(ticker) returns the product of the last entry whose id is
\* ticker + "-USD", and none when the last entry lists no such product or the
\* history is empty, whatever the earlier entries list.
C13_Lookup ==
    [][Returns("query") =>
         IF data = <<>> THEN qret' = None
         ELSE LET hits == {q \in Listed(data[Len(data)]) : q.id = qarg \o "-USD"}
              IN IF hits = {} THEN qret' = None
                 ELSE IsSome(qret') /\ hits = {Unwrap(qret')}]_vars

\* ETH-USD asked for, listed by an earlier entry and not by the last: none
C13_Witness ==
    /\ qpc = "done" /\ qop = "query" /\ qarg = "ETH" /\ qret = None
    /\ Len(data) >= 2
    /\ "ETH-USD" \in DOMAIN data[1].products

\* C14: query_cmp returns none when the history is empty, none when the first
\* and the last entry list the same products (whatever the entries between
\* them list), and a report when the two differ.
C14_Diff ==
    [][Returns("query_cmp") =>
         IF data = <<>> THEN qret' = None
         ELSE IF data[1].products = data[Len(data)].products THEN qret' = None
         ELSE IsSome(qret')]_vars

\* none although the entry in the middle differs from the first and the last
C14_Witness ==
    /\ qpc = "done" /\ qop = "query_cmp" /\ qret = None
    /\ Len(data) = 3
    /\ data[1].products = data[3].products
    /\ data[2].products # data[1].products

\* a task has a network request in flight: only the poll loop sends one, and
\* query / query_cmp send none
NetworkInFlight(t) == t = "monitor" /\ loop = "fetching"

\* C15: no task that holds the lock has a network request in flight; the
\* poll loop holds it only between the answer of the fetch and the sleep.
C15_NoNetworkUnderLock ==
    /\ \A t \in locked : ~NetworkInFlight(t)
    /\ "monitor" \in locked => loop \notin {"top", "fetching", "sleeping"}

\* a query holds the lock while the catalog fetch is in flight
C15_Witness == "query" \in locked /\ loop = "fetching"

\* C17: the history changes only in the one step of the poll loop that puts
\* the pruned history with the new snapshot appended in its place, a step
\* taken while no query holds the lock; a query reads while it holds the lock
\* and changes nothing.
C17_AtomicUpdate ==
    [][/\ data' # data =>
            /\ loop = "storing"
            /\ "query" \notin locked
            /\ data'[Len(data')] = [time |-> now, products |-> products]
            /\ SubSeq(data', 1, Len(data') - 1)
                 = SelectSeq(data, LAMBDA e : e.time >= now - 24)
       /\ qpc' # qpc => data' = data
       /\ Returns(qop) => "monitor" \notin locked]_vars

\* a query waits for the lock while the poll loop is about to prune and append
C17_Witness ==
    /\ qpc = "lock"
    /\ loop = "storing"
    /\ data # <<>>
    /\ data[1].time < now - 24

\* the iteration's answer was an array and its update has been stored
StoredArray ==
    /\ loop = "sleeping"
    /\ naps = 0
    /\ IsSome(answer)
    /\ ~TransportFailed(Unwrap(answer).transport)
    /\ Unwrap(answer).type = "array"

Items == Unwrap(answer).items
Parsing == {i \in DOMAIN Items : IsSome(Items[i].id)}
Newest == data[Len(data)]

\* C23: after a poll whose answer is an array, the snapshot appended for it
\* maps exactly the ids of the elements that parse, each id to one of the
\* parsed elements that carry it; elements that do not parse are left out and
\* the snapshot is appended all the same, empty if none parses.
C23_CatalogParsing ==
    StoredArray =>
        /\ data # <<>>
        /\ Newest.time = now
        /\ DOMAIN Newest.products = {Unwrap(Items[i].id) : i \in Parsing}
        /\ \A k \in DOMAIN Newest.products :
              /\ Newest.products[k].id = k
              /\ \E i \in Parsing : Newest.products[k] = Unwrap(ParseProduct(Items[i]))
        /\ (Parsing = {}) => DOMAIN Newest.products = {}

\* an array of one element that parses and one that does not gave a snapshot of
\* one product, after a snapshot of an array in which nothing parsed
C23_Witness ==
    /\ StoredArray
    /\ Len(Items) = 2
    /\ Cardinality(Parsing) = 1
    /\ Len(data) >= 2
    /\ DOMAIN Newest.products # {}
    /\ DOMAIN data[Len(data) - 1].products = {}

-----------------------------------------------------------------------------
(* The Yahoo source as a function of the history the vendor returns *)

InitYahoo ==
    /\ yresp \in YahooResponses
    /\ ypc = "input"
    /\ yret = None

\* get_ticker_data on an instance whose last_check_res is None
FetchYahoo ==
    /\ ypc = "input"
    /\ ypc' = "done"
    /\ yret' = Some(QueryTickerData("yfinance", RunQuery("yfinance", yresp)))
    /\ UNCHANGED yresp
    /\ OnlyYahoo

\* the points in the vendor's order, oldest first
Points == yresp.quotes
Latest == Points[Len(Points)]
Prior == Points[Len(Points) - 1]
YahooDone == ypc = "done" /\ ~TransportFailed(yresp.transport)
YahooSuccess(last, prev) == Unwrap(yret) = TickerData(last, prev, ~IsSome(last), <<>>)
YahooFailure ==
    /\ Unwrap(yret).last_price = None
    /\ Unwrap(yret).prev_price = None
    /\ Unwrap(yret).insufficient_data
    /\ Len(Unwrap(yret).errors) = 1
Representable(f) == f # NaN

\* C21 as stated: zero points give a success with no prices and no errors, one
\* point gives a success with the latest close and no previous price, two or
\* more points give a success with the latest close and the prior point's
\* close; none of the cases is a failure.
C21_YahooCasesAsStated ==
    YahooDone =>
        /\ Len(Points) = 0 => YahooSuccess(None, None)
        /\ Len(Points) = 1 => YahooSuccess(Some(DecScale * Latest.close), None)
        /\ Len(Points) >= 2 =>
               YahooSuccess(Some(DecScale * Latest.close), Some(DecScale * Prior.close))

\* C21, amended: the previous price is the prior point's adjusted close, and
\* is absent when that adjusted close is 0; a latest close, or a prior
\* adjusted close, that has no decimal representation makes the fetch a
\* failure; every other case is a success.
C21_YahooCases ==
    YahooDone =>
        /\ Len(Points) = 0 => YahooSuccess(None, None)
        /\ Len(Points) = 1 =>
               IF Representable(Latest.close)
               THEN YahooSuccess(Some(DecScale * Latest.close), None)
               ELSE YahooFailure
        /\ Len(Points) >= 2 =>
               IF ~Representable(Latest.close) THEN YahooFailure
               ELSE IF Prior.adjclose = 0
                    THEN YahooSuccess(Some(DecScale * Latest.close), None)
               ELSE IF ~Representable(Prior.adjclose) THEN YahooFailure
               ELSE YahooSuccess(Some(DecScale * Latest.close),
                                 Some(DecScale * Prior.adjclose))

\* two points whose closes and adjusted closes all differ have been fetched
C21_Witness ==
    /\ YahooDone
    /\ Len(Points) = 2
    /\ Representable(Latest.close)
    /\ Representable(Prior.adjclose)
    /\ Prior.adjclose # 0
    /\ Prior.adjclose # Prior.close
    /\ Latest.close # Prior.adjclose
    /\ IsSome(Unwrap(yret).prev_price)

-----------------------------------------------------------------------------
(* Specifications *)

ParkedYahoo ==
    /\ yresp = [transport |-> "ok", quotes |-> <<>>]
    /\ ypc = "input"
    /\ yret = None

ParkedRest == ParkedYahoo /\ inner = None /\ InitShared

ParkedDS ==
    /\ kind = "binance"
    /\ clock = 0
    /\ last_check_res = None
    /\ mutex = <<>>
    /\ pc = [c \in Callers |-> "idle"]
    /\ ret = [c \in Callers |-> None]
    /\ call = [c \in Callers |-> NoCall]
    /\ turn = 0
    /\ calls = 0
    /\ starts = <<>>
    /\ okDone = None
    /\ lastFailed = FALSE

\* tasks sharing one source
NextDS ==
    \/ Tick
    \/ \E c \in Callers : Call(c)
    \/ \E c \in Callers : Acquire(c)
    \/ \E c \in Callers : \E resp \in PlainResponses(kind) : Respond(c, resp)

StartDS == InitDS /\ ParkedAgg /\ ParkedMedian /\ ParkedMon /\ ParkedRest

SpecDS == StartDS /\ [][NextDS]_vars

\* one task calling one source again and again, the vendor answering anything
NextFetch ==
    \/ Tick
    \/ Call(1)
    \/ Acquire(1)
    \/ \E resp \in Responses(kind) : Respond(1, resp)

StartFetch == InitDS /\ ParkedAgg /\ ParkedMedian /\ ParkedMon /\ ParkedRest

SpecFetch == StartFetch /\ [][NextFetch]_vars

\* one task calling an Aggregator
NextAgg ==
    \/ AggCall
    \/ \E i \in Members : \E resp \in MemberResponses(MemberKind(i)) : MemberRespond(i, resp)
    \/ AggReturn

StartAgg == ParkedDS /\ InitAgg /\ ParkedMedian /\ ParkedMon /\ ParkedRest

SpecAgg == StartAgg /\ [][NextAgg]_vars

\* median applied to a sequence of decimals
NextMedian == RunMedian

StartMedian == ParkedDS /\ ParkedAgg /\ InitMedian /\ ParkedMon /\ ParkedRest

SpecMedian == StartMedian /\ [][NextMedian]_vars

\* the poll loop
NextMon ==
    \/ PollStart
    \/ \E resp \in PollOutcomes : \E took \in {0, 1} : PollRespond(resp, took)
    \/ PollLock
    \/ PollStore
    \/ \E slept \in SleepHours : Wake(slept)
    \/ ClockSetBack

StartMon == ParkedDS /\ ParkedAgg /\ ParkedMedian /\ InitMon /\ ParkedRest

SpecMon == StartMon /\ [][NextMon]_vars

\* the poll loop and a task that queries
NextQuery ==
    \/ PollStart
    \/ \E resp \in Catalogs : PollRespond(resp, 0)
    \/ PollLock
    \/ PollStore
    \/ \E slept \in {PollInterval, 20 * PollInterval} : Wake(slept)
    \/ \E ticker \in Tickers : QCall("query", ticker)
    \/ QCall("query_cmp", "")
    \/ QLock
    \/ QReturn

\* the poll loop under the scheduling the runtime gives: the request ends (the
\* client's 10 s timeout), the fair Mutex is granted and given back, the
\* sleep ends; queries come or do not
NextLive ==
    \/ PollStart
    \/ \E resp \in PollOutcomes : PollRespond(resp, 0)
    \/ PollLock
    \/ PollStore
    \/ Wake(PollInterval)
    \/ QCall("query", "BTC")
    \/ QLock
    \/ QReturn

Fairness ==
    /\ WF_vars(PollStart)
    /\ WF_vars(\E resp \in PollOutcomes : PollRespond(resp, 0))
    /\ WF_vars(PollLock)
    /\ WF_vars(PollStore)
    /\ WF_vars(Wake(PollInterval))
    /\ WF_vars(QLock)
    /\ WF_vars(QReturn)

StartLive == ParkedDS /\ ParkedAgg /\ ParkedMedian /\ InitMon /\ ParkedRest

SpecLive == StartLive /\ [][NextLive]_vars /\ Fairness

StartQuery == ParkedDS /\ ParkedAgg /\ ParkedMedian /\ InitMon /\ ParkedRest

SpecQuery == StartQuery /\ [][NextQuery]_vars

\* the poll loop, the listing endpoint answering arrays of every make-up
NextCatalog ==
    \/ PollStart
    \/ \E resp \in ArrayResponses \cup {CatalogObject(Null)} : PollRespond(resp, 0)
    \/ PollLock
    \/ PollStore
    \/ Wake(PollInterval)

StartCatalog == ParkedDS /\ ParkedAgg /\ ParkedMedian /\ InitMon /\ ParkedRest

SpecCatalog == StartCatalog /\ [][NextCatalog]_vars

\* one task calling an Aggregator whose first member is an Aggregator
NextNested ==
    \/ AggCall
    \/ \E resps \in InnerAnswers : InnerRespond(1, resps)
    \/ \E i \in Members \ {1} : \E resp \in MemberResponses(MemberKind(i)) :
           MemberRespond(i, resp)
    \/ AggReturn

StartNested == ParkedDS /\ InitAgg /\ ParkedMedian /\ ParkedMon /\ ParkedRest

SpecNested == StartNested /\ [][NextNested]_vars

\* tasks calling one Aggregator at the same time
NextShared ==
    \/ \E t \in Callers : TCall(t)
    \/ \E t \in Callers : \E i \in Sources : FStart(t, i)
    \/ \E t \in Callers : \E i \in Sources : FAcquire(t, i)
    \/ \E t \in Callers : \E i \in Sources :
           \E resp \in PlainResponses(SharedKinds[i]) : FRespond(t, i, resp)
    \/ \E t \in Callers : TReturn(t)

StartShared == ParkedDS /\ ParkedAgg /\ ParkedMedian /\ ParkedMon /\ ParkedRest

SpecShared == StartShared /\ [][NextShared]_vars

\* the tasks that call the Aggregator, the poll loop and a task that queries,
\* under the scheduling the runtime gives: a future that can be polled is
\* polled, a request ends (the client's 10 s timeout), the fair Mutex is
\* granted and given back, the sleep ends; calls come or do not
ProgressOutcomes == {CatalogFailed("error"), CatalogArray(<<Btc("Bitcoin")>>)}

\* a request that fails and one that succeeds
ProgressAnswers(k) ==
    {r \in PlainResponses(k) : r.transport = "ok" => r.last = JStr(PriceText[1])}

NextProgress ==
    \/ \E t \in Callers : TCall(t)
    \/ \E t \in Callers : \E i \in Sources : FStart(t, i)
    \/ \E t \in Callers : \E i \in Sources : FAcquire(t, i)
    \/ \E t \in Callers : \E i \in Sources :
           \E resp \in ProgressAnswers(SharedKinds[i]) : FRespond(t, i, resp)
    \/ \E t \in Callers : TReturn(t)
    \/ PollStart
    \/ \E resp \in ProgressOutcomes : PollRespond(resp, 0)
    \/ PollLock
    \/ PollStore
    \/ Wake(PollInterval)
    \/ QCall("query", "BTC")
    \/ QCall("query_cmp", "")
    \/ QLock
    \/ QReturn

\* the steps of the calls under way, of the poll loop, of the query under way
FetchStep ==
    \/ \E t \in Callers : \E i \in Sources : FStart(t, i)
    \/ \E t \in Callers : \E i \in Sources : FAcquire(t, i)
    \/ \E t \in Callers : \E i \in Sources :
           \E resp \in ProgressAnswers(SharedKinds[i]) : FRespond(t, i, resp)
    \/ \E t \in Callers : TReturn(t)

PollStep ==
    \/ PollStart
    \/ \E resp \in ProgressOutcomes : PollRespond(resp, 0)
    \/ PollLock
    \/ PollStore
    \/ Wake(PollInterval)

QueryStep == QLock \/ QReturn

FairnessProgress == WF_vars(FetchStep) /\ WF_vars(PollStep) /\ WF_vars(QueryStep)

\* the poll loop about to begin its last iteration here, after polls that all
\* failed and sleeps of one interval each
LateMon ==
    /\ wall = (MaxPolls - 1) * PollInterval
    /\ data = <<>>
    /\ dataMutex = <<>>
    /\ loop = "top"
    /\ now = (MaxPolls - 2) * PollInterval
    /\ products = <<>>
    /\ polls = MaxPolls - 1
    /\ dropped = 0
    /\ answer = Some(CatalogFailed("error"))
    /\ locked = {}
    /\ naps = 1
    /\ InitQuery

StartProgress == ParkedDS /\ ParkedAgg /\ ParkedMedian /\ LateMon /\ ParkedRest

SpecProgress == StartProgress /\ [][NextProgress]_vars /\ FairnessProgress

\* one fetch of a cold Yahoo source, the vendor answering anything
NextYahoo == FetchYahoo

StartYahoo == ParkedDS /\ ParkedAgg /\ ParkedMedian /\ ParkedMon /\ InitYahoo /\ inner = None /\ InitShared

SpecYahoo == StartYahoo /\ [][NextYahoo]_vars

=============================================================================
